---- MODULE Spec2Model ----
(***************************************************************************)
(* YouTube channel analyzer: the scoring/ranking service                   *)
(* (src/ejecucion/youtube_service.py) and the background-job HTTP API       *)
(* (src/api.py).                                                            *)
(*                                                                          *)
(* Conventions of the model                                                 *)
(*  - Python None is <<>>, a present value v is <<v>> (Some(v)).            *)
(*  - A Python dict is a record; a key the dict lacks is a field the record *)
(*    lacks ("error" \in DOMAIN r is Python's 'error' in r).                *)
(*  - A call that may raise returns [kind |-> "return", value |-> v] or     *)
(*    [kind |-> "raise", msg |-> str(e)].                                   *)
(*  - Floats rounded to 2 decimals (score, promedio_score) are integers in  *)
(*    hundredths; engagement_rate is the exact fraction [num, den]; the     *)
(*    rounding is Python's round(): half to even. The binary representation *)
(*    error of floats is not modelled.                                      *)
(*  - A timestamp of a raw record is given by its kind and, when it carries *)
(*    an offset, by hours = now(UTC) - published, in hours (negative: the   *)
(*    publish time lies in the future).                                     *)
(***************************************************************************)
EXTENDS Integers, Sequences, FiniteSets, TLC

VARIABLES
    env,          \* api.py module globals APIFY_API_TOKEN, GOOGLE_SHEETS_ID
    jobs_store,   \* api.py jobs_store: job_id -> job entry
    tasks,        \* the background tasks added by analyze_channels, in order
    now,          \* the clock datetime.now() reads
    fetch,        \* channel analysis: what the fetch collaborator answers
    outcome,      \* channel analysis: what analizar_canal returned or raised
    item,         \* normalization: one raw record of the scraper
    normalized,   \* normalization: what the loop body made of it
    probe,        \* scoring: a video dict (and the mean) a function is called with
    answer        \* scoring: what the function returned

vars == <<env, jobs_store, tasks, now, fetch, outcome, item, normalized, probe, answer>>

None == <<>>
Some(v) == <<v>>

Return(v) == [kind |-> "return", value |-> v]
Raise(m) == [kind |-> "raise", msg |-> m]

Min(a, b) == IF a < b THEN a ELSE b
Max(a, b) == IF a > b THEN a ELSE b

(***************************************************************************)
(* Python round(n/d, k) on the exact fraction n/d (d > 0), in units of      *)
(* 10^-k: round half to even.                                               *)
(***************************************************************************)
RoundHalfEven(n, d) ==
    LET q == n \div d
        r == n - q * d
    IN  IF 2 * r < d THEN q
        ELSE IF 2 * r > d THEN q + 1
        ELSE IF q % 2 = 0 THEN q ELSE q + 1

RECURSIVE SumSeq(_)
SumSeq(s) == IF s = <<>> THEN 0 ELSE Head(s) + SumSeq(Tail(s))


(***************************************************************************)
(* Raw records of the scraper (RawVideoRecord). A count is a Python value:  *)
(* the key is missing, or holds null, an int, or a non-numeric string.      *)
(* title, url and duration are copied through unchanged and read by no      *)
(* decision; the model carries the identifier only.                         *)
(***************************************************************************)
Missing == [t |-> "missing"]
Null == [t |-> "null"]
PyInt(k) == [t |-> "int", n |-> k]
PyStr == [t |-> "str"]

\* item.get(key, 0) or 0 : a missing key, null and 0 all give 0; any other
\* value, a non-empty string included, is kept as it is.
get_or_0(x) ==
    IF x.t \in {"missing", "null"} THEN PyInt(0)
    ELSE IF x.t = "int" /\ x.n = 0 THEN PyInt(0)
    ELSE x

HoursPerDay == 24

(***************************************************************************)
(* Lines 58-66: dias_publicado of a raw 'date'.                             *)
(*   missing / null / ""  -> date_str is falsy                  -> 0        *)
(*   garbage              -> fromisoformat raises, bare except   -> 0        *)
(*   naive (no offset)    -> aware - naive raises, bare except   -> 0        *)
(*   aware, utc_z ("...Z" replaced by "+00:00")                              *)
(*                        -> (ahora - published).days, the floor of the      *)
(*                           difference in days, with no clamp at 0          *)
(***************************************************************************)
dias_publicado_of(date) ==
    IF date.kind \in {"aware", "utc_z"}
    THEN date.hours \div HoursPerDay
    ELSE 0

\* item.get('date', ''), kept for display as published_at
published_at_of(date) == IF date.kind = "missing" THEN [kind |-> "empty"] ELSE date

(***************************************************************************)
(* calcular_score, in hundredths:                                           *)
(*   round(views/dias*0.4 + engagement_rate*100*0.3 + views/1000*0.3, 2)    *)
(* with dias = max(dias_publicado, 1). The three terms are added as exact   *)
(* fractions, whole parts and remainders apart, so that no product leaves   *)
(* the integer range.                                                       *)
(***************************************************************************)
\* calcular_score with dias = dias_publicado + 1 in place of the clamp
calcular_score_age_plus_one(video) ==
    LET views == video.views
        dias == video.dias_publicado + 1
        er == video.engagement_rate
        a == 40 * views
        b == 3000 * er.num
        c == 3 * views
        den == dias * er.den * 100
        frac == (a % dias) * er.den * 100 + (b % er.den) * dias * 100
                    + (c % 100) * dias * er.den
        whole == (a \div dias) + (b \div er.den) + (c \div 100) + (frac \div den)
        r == frac % den
    IN  IF 2 * r < den THEN whole
        ELSE IF 2 * r > den THEN whole + 1
        ELSE IF whole % 2 = 0 THEN whole ELSE whole + 1

calcular_score(video) ==
    LET views == video.views
        dias == Max(video.dias_publicado, 1)
        er == video.engagement_rate
        a == 40 * views           \* views / dias * 0.4 is a / dias hundredths
        b == 3000 * er.num        \* engagement_rate * 100 * 0.3 is b / er.den
        c == 3 * views            \* views / 1000 * 0.3 is c / 100
        den == dias * er.den * 100
        frac == (a % dias) * er.den * 100 + (b % er.den) * dias * 100
                    + (c % 100) * dias * er.den
        whole == (a \div dias) + (b \div er.den) + (c \div 100) + (frac \div den)
        r == frac % den
    IN  IF 2 * r < den THEN whole
        ELSE IF 2 * r > den THEN whole + 1
        ELSE IF whole % 2 = 0 THEN whole ELSE whole + 1

(***************************************************************************)
(* Lines 57-88: the body of the loop of obtener_videos_canal for one item.  *)
(* max(views, 1) and likes + comments raise TypeError on a string; nothing  *)
(* in the loop catches it.                                                  *)
(***************************************************************************)
normalize(raw) ==
    LET dias_publicado == dias_publicado_of(raw.date)
        views == get_or_0(raw.viewCount)
        likes == get_or_0(raw.likes)
        comments == get_or_0(raw.commentsCount)
    IN  IF views.t # "int"
        THEN Raise("'>' not supported between instances of 'int' and 'str'")
        ELSE IF likes.t # "int" \/ comments.t # "int"
        THEN Raise("unsupported operand type(s) for +: 'int' and 'str'")
        ELSE LET views_safe == Max(views.n, 1)
                 engagement_rate ==
                     [num |-> (likes.n + comments.n) * 100, den |-> views_safe]
                 video == [views |-> views.n,
                           dias_publicado |-> dias_publicado,
                           engagement_rate |-> engagement_rate]
             IN  Return([video_id |-> raw.id,
                         published_at |-> published_at_of(raw.date),
                         dias_publicado |-> dias_publicado,
                         views |-> views.n,
                         likes |-> likes.n,
                         comments |-> comments.n,
                         engagement_rate |-> engagement_rate,
                         score |-> calcular_score(video)])

(***************************************************************************)
(* The fetch collaborator (ApifyClient) is a function: client[<<url, n>>]  *)
(* is what the run of the scraper for url with maxResults = n answers.     *)
(*                                                                          *)
(* obtener_videos_canal: the fetch collaborator's answer (a raise of the    *)
(* transport, or the items of the dataset), then the loop over the items.   *)
(* The first item whose normalization raises ends the call with that        *)
(* exception; the videos normalized before it are lost.                     *)
(***************************************************************************)
RECURSIVE normalize_all(_, _)
normalize_all(items, videos) ==
    IF items = <<>> THEN Return(videos)
    ELSE IF normalize(Head(items)).kind = "raise" THEN normalize(Head(items))
    ELSE normalize_all(Tail(items), Append(videos, normalize(Head(items)).value))

obtener_videos_canal(client, channel_url, max_videos) ==
    LET run == client[<<channel_url, max_videos>>]
    IN  IF run.kind = "raise" THEN run
        ELSE normalize_all(run.items, <<>>)

(***************************************************************************)
(* obtener_info_canal: one call of the collaborator with maxResults = 1;    *)
(* no item raises ValueError, else the name and the canonical URL of the    *)
(* first item, each with its default when the key is missing.               *)
(***************************************************************************)
InfoErrorPrefix == "No se pudo obtener informacion del canal: "

obtener_info_canal(client, channel_url) ==
    LET run == client[<<channel_url, 1>>]
    IN  IF run.kind = "raise" THEN run
        ELSE IF run.items = <<>> THEN Raise(InfoErrorPrefix \o channel_url)
        ELSE LET video_info == Head(run.items)
             IN  Return([channel_name |->
                             IF "channelName" \in DOMAIN video_info
                             THEN video_info.channelName ELSE "Desconocido",
                         channel_url |->
                             IF "channelUrl" \in DOMAIN video_info
                             THEN video_info.channelUrl ELSE channel_url])

(***************************************************************************)
(* analizar_porque_destaca: the reasons that apply, in the order of the     *)
(* checks, joined by ", "; the fallback text when none applies.             *)
(***************************************************************************)
HighReachViews == 10000
ExceptionalEngagement == 5
GoodEngagement == 3
RecentDays == 7
ViralViews == 1000
OutlierFactor == 2

RECURSIVE join(_)
join(razones) ==
    IF Len(razones) = 1 THEN Head(razones)
    ELSE Head(razones) \o ", " \o join(Tail(razones))

\* analizar_porque_destaca with the views threshold of 'Alto alcance' included
analizar_porque_destaca_from_threshold(video, promedio_score) ==
    LET er == video.engagement_rate
        r1 == IF video.views >= HighReachViews THEN <<"Alto alcance">> ELSE <<>>
        r2 == IF er.num > ExceptionalEngagement * er.den
              THEN <<"Engagement excepcional">>
              ELSE IF er.num > GoodEngagement * er.den
              THEN <<"Buen engagement">>
              ELSE <<>>
        r3 == IF video.dias_publicado < RecentDays /\ video.views > ViralViews
              THEN <<"Viral reciente">> ELSE <<>>
        r4 == IF promedio_score > 0 /\ video.score > promedio_score * OutlierFactor
              THEN <<"Outlier significativo">> ELSE <<>>
        razones == r1 \o r2 \o r3 \o r4
    IN  IF razones # <<>> THEN join(razones) ELSE "Rendimiento consistente"

analizar_porque_destaca(video, promedio_score) ==
    LET er == video.engagement_rate
        r1 == IF video.views > HighReachViews THEN <<"Alto alcance">> ELSE <<>>
        r2 == IF er.num > ExceptionalEngagement * er.den
              THEN <<"Engagement excepcional">>
              ELSE IF er.num > GoodEngagement * er.den
              THEN <<"Buen engagement">>
              ELSE <<>>
        r3 == IF video.dias_publicado < RecentDays /\ video.views > ViralViews
              THEN <<"Viral reciente">> ELSE <<>>
        r4 == IF promedio_score > 0 /\ video.score > promedio_score * OutlierFactor
              THEN <<"Outlier significativo">> ELSE <<>>
        razones == r1 \o r2 \o r3 \o r4
    IN  IF razones # <<>> THEN join(razones) ELSE "Rendimiento consistente"

(***************************************************************************)
(* sorted(videos, key=score, reverse=True): Python's sort is stable, also   *)
(* with reverse=True, so a video goes behind every video already placed     *)
(* whose score is greater or equal.                                         *)
(***************************************************************************)
\* insert_desc that puts a video in front of the placed videos of equal score
RECURSIVE insert_desc_before_equal(_, _)
insert_desc_before_equal(placed, v) ==
    IF placed = <<>> THEN <<v>>
    ELSE IF Head(placed).score > v.score
    THEN <<Head(placed)>> \o insert_desc_before_equal(Tail(placed), v)
    ELSE <<v>> \o placed

RECURSIVE insert_desc(_, _)
insert_desc(placed, v) ==
    IF placed = <<>> THEN <<v>>
    ELSE IF Head(placed).score >= v.score
    THEN <<Head(placed)>> \o insert_desc(Tail(placed), v)
    ELSE <<v>> \o placed

RECURSIVE sorted_by_score_desc(_, _)
sorted_by_score_desc(videos, placed) ==
    IF videos = <<>> THEN placed
    ELSE sorted_by_score_desc(Tail(videos), insert_desc(placed, Head(videos)))

TopN == 5
MaxVideosPerChannel == 10

\* Lines 168-173: what the loop over top_5 writes into one video dict.
\* vs_promedio is in tenths of a percent.
with_analysis(v, promedio_score) ==
    [k \in DOMAIN v \cup {"razon_destaca", "vs_promedio"} |->
        IF k = "razon_destaca" THEN analizar_porque_destaca(v, promedio_score)
        ELSE IF k = "vs_promedio"
        THEN IF promedio_score > 0
             THEN RoundHalfEven(1000 * (v.score - promedio_score), promedio_score)
             ELSE 0
        ELSE v[k]]

\* no_videos_result as a result of the success shape, with no error
no_videos_result_unflagged(channel_name, channel_url) ==
    [channel_name |-> channel_name,
     channel_url |-> channel_url,
     videos |-> <<>>,
     top_5 |-> <<>>,
     promedio_score |-> 0,
     total_videos |-> 0]

\* lines 149-157: the result for a channel whose video call gave no item
no_videos_result(channel_name, channel_url) ==
    [channel_name |-> channel_name,
     channel_url |-> channel_url,
     error |-> "No se encontraron videos",
     videos |-> <<>>,
     top_5 |-> <<>>,
     promedio_score |-> 0]

\* promedio_of with the mean cut to 2 decimals instead of rounded
promedio_truncated(videos) ==
    IF videos = <<>> THEN 0
    ELSE SumSeq([i \in 1..Len(videos) |-> videos[i].score]) \div Len(videos)

\* lines 160-161: round(sum(scores) / len(scores), 2) if scores else 0
promedio_of(videos) ==
    IF videos = <<>> THEN 0
    ELSE RoundHalfEven(SumSeq([i \in 1..Len(videos) |-> videos[i].score]),
                       Len(videos))

(***************************************************************************)
(* analizar_canal. It has no try/except: what obtener_info_canal or         *)
(* obtener_videos_canal raises leaves it as it is. The videos are fetched   *)
(* under the canonical URL; the result carries the URL that was asked for.  *)
(* top_5 is a slice of videos_ordenados, so it holds the same dict objects: *)
(* the fields the loop over top_5 writes show in 'videos' as well.          *)
(***************************************************************************)
analizar_canal(client, channel_url) ==
    LET channel_info == obtener_info_canal(client, channel_url)
    IN  IF channel_info.kind = "raise" THEN channel_info
        ELSE
        LET channel_name == channel_info.value.channel_name
            real_channel_url == channel_info.value.channel_url
            fetched == obtener_videos_canal(client, real_channel_url,
                                            MaxVideosPerChannel)
        IN  IF fetched.kind = "raise" THEN fetched
            ELSE
            LET videos == fetched.value
            IN  IF videos = <<>>
                THEN Return(no_videos_result(channel_name, channel_url))
                ELSE
                LET promedio_score == promedio_of(videos)
                    ordered == sorted_by_score_desc(videos, <<>>)
                    videos_ordenados ==
                        [i \in 1..Len(ordered) |->
                            IF i <= TopN
                            THEN with_analysis(ordered[i], promedio_score)
                            ELSE ordered[i]]
                    top_5 == SubSeq(videos_ordenados, 1, Min(TopN, Len(ordered)))
                IN  Return([channel_name |-> channel_name,
                            channel_url |-> channel_url,
                            videos |-> videos_ordenados,
                            top_5 |-> top_5,
                            promedio_score |-> promedio_score,
                            total_videos |-> Len(videos)])

(***************************************************************************)
(* exportar_multiples_canales_a_sheets. transport is what the credentials   *)
(* and the Sheets calls do ("ok", or "failed": one of them raises). With a  *)
(* working transport the first loop reads resultado['total_videos'] of      *)
(* every result whose resultado.get('error') is falsy: a missing key, but   *)
(* also an empty message. The other keys it reads exist in every result.    *)
(***************************************************************************)
SheetsUrlPrefix == "https://docs.google.com/spreadsheets/d/"
TransportErrorMsg == "APIError: the Sheets transport failed"

error_is_truthy(resultado) == "error" \in DOMAIN resultado /\ resultado.error # ""

exportar_multiples_canales_a_sheets(resultados, spreadsheet_id, transport) ==
    IF transport = "failed" THEN Raise(TransportErrorMsg)
    ELSE IF \E i \in 1..Len(resultados) :
                /\ ~error_is_truthy(resultados[i])
                /\ "total_videos" \notin DOMAIN resultados[i]
    THEN Raise("'total_videos'")
    ELSE Return(SheetsUrlPrefix \o spreadsheet_id)

(***************************************************************************)
(* The API (src/api.py).                                                    *)
(***************************************************************************)

\* str(uuid.uuid4())[:8]: the first 8 of the 32 hex digits of a random UUID.
\* Two different UUIDs may share them.
truncate8(uuid) == uuid.head

\* new_job with total_channels left at the default of JobStatus (line 88)
new_job_total_default(job_id, channels, spreadsheet_url, started_at) ==
    [job_id |-> job_id,
     status |-> "pending",
     channels |-> channels,
     spreadsheet_url |-> spreadsheet_url,
     started_at |-> started_at,
     completed_at |-> None,
     error |-> None,
     channels_processed |-> 0,
     total_channels |-> 0]

\* lines 198-208: the entry analyze_channels stores
new_job(job_id, channels, spreadsheet_url, started_at) ==
    [job_id |-> job_id,
     status |-> "pending",
     channels |-> channels,
     spreadsheet_url |-> spreadsheet_url,
     started_at |-> started_at,
     completed_at |-> None,
     error |-> None,
     channels_processed |-> 0,
     total_channels |-> Len(channels)]

\* line 181: request.spreadsheet_id or GOOGLE_SHEETS_ID ("" when both are unset)
spreadsheet_id_of(request) ==
    IF request.spreadsheet_id # None /\ request.spreadsheet_id[1] # ""
    THEN request.spreadsheet_id[1]
    ELSE env.GOOGLE_SHEETS_ID

\* lines 175-192: the HTTP error analyze_channels raises, 0 when it accepts
rejection(request) ==
    IF env.APIFY_API_TOKEN = "" THEN 500
    ELSE IF spreadsheet_id_of(request) = "" THEN 400
    ELSE IF request.channels = <<>> THEN 400
    ELSE 0

put(store, job_id, entry) ==
    [id \in DOMAIN store \cup {job_id} |-> IF id = job_id THEN entry ELSE store[id]]

\* jobs_store[job_id][field] = value
set_field(store, job_id, field, value) ==
    [store EXCEPT ![job_id] = [@ EXCEPT ![field] = value]]

\* lines 229-243: GET /job/{job_id}, a read of the ledger
get_job_status(job_id) ==
    IF job_id \notin DOMAIN jobs_store
    THEN [status_code |-> 404]
    ELSE [status_code |-> 200, body |-> jobs_store[job_id]]

\* lines 210-216: the task background_tasks.add_task schedules
new_task(job_id, channels, spreadsheet_id) ==
    [job_id |-> job_id,
     channels |-> channels,
     spreadsheet_id |-> spreadsheet_id,
     pc |-> "queued",
     i |-> 0,
     resultados |-> <<>>,
     transport |-> "none",
     exc |-> None,
     spreadsheet_url |-> None,
     export_calls |-> 0]

(***************************************************************************)
(* The fetch collaborator as the API's jobs meet it: what a run of the      *)
(* scraper answers for each URL. One channel of each kind the code tells    *)
(* apart: one that resolves and has videos, one that resolves and has none, *)
(* one the scraper finds no item for, one whose info call raises an         *)
(* exception with an empty message, one whose video call raises.            *)
(***************************************************************************)
OkUrl == "https://www.youtube.com/@ok"
NoVideosUrl == "https://www.youtube.com/@novideos"
UnknownUrl == "https://www.youtube.com/@unknown"
SilentUrl == "https://www.youtube.com/@silent"
BrokenUrl == "https://www.youtube.com/@broken"
ChannelUrls == {OkUrl, NoVideosUrl, UnknownUrl, SilentUrl, BrokenUrl}

Canonical(url) == url \o "/videos"

Items(items) == [kind |-> "items", items |-> items]

Aware(h) == [kind |-> "aware", hours |-> h]

RawItem(id, date, views, likes, comments) ==
    [id |-> id, date |-> date, viewCount |-> views, likes |-> likes,
     commentsCount |-> comments]

InfoItem(name, url) ==
    [id |-> "info", channelName |-> name, channelUrl |-> Canonical(url)]

ApifyWorld(url, maxResults) ==
    IF url = SilentUrl THEN Raise("")
    ELSE IF url = UnknownUrl THEN Items(<<>>)
    ELSE IF url = OkUrl THEN Items(<<InfoItem("Ok", url)>>)
    ELSE IF url = NoVideosUrl THEN Items(<<InfoItem("NoVideos", url)>>)
    ELSE IF url = BrokenUrl THEN Items(<<InfoItem("Broken", url)>>)
    ELSE IF url = Canonical(OkUrl)
    THEN Items(<<RawItem("ok1", Aware(48), PyInt(1500), PyInt(30), Null),
                 RawItem("ok2", Aware(720), PyInt(15000), PyInt(150), PyInt(15))>>)
    ELSE IF url = Canonical(NoVideosUrl) THEN Items(<<>>)
    ELSE Raise("ApifyApiError: actor run failed")

WorldUrls == ChannelUrls \cup {Canonical(u) : u \in ChannelUrls}

ApifyClient ==
    [call \in WorldUrls \X {1, MaxVideosPerChannel} |-> ApifyWorld(call[1], call[2])]

\* analizar_canal(client, channel_url) for the client above. The answers of
\* the collaborator are fixed, so the call is tabulated once per URL.
RECURSIVE tabulated(_)
tabulated(urls) ==
    IF urls = {} THEN <<>>
    ELSE (CHOOSE u \in urls : TRUE) :> analizar_canal(ApifyClient, CHOOSE u \in urls : TRUE)
            @@ tabulated(urls \ {CHOOSE u \in urls : TRUE})

analizar_canal_of == tabulated(ChannelUrls)

(***************************************************************************)
(* POST /analyze (analyze_channels). The handler has no await: it runs as   *)
(* one step of the event loop. A rejected request changes nothing.          *)
(***************************************************************************)
SubmitRejected(pool) ==
    /\ \E request \in pool : rejection(request) # 0
    /\ UNCHANGED vars

Submit(pool, uuids, cap) ==
    /\ Len(tasks) < cap
    /\ \E request \in pool, uuid \in uuids :
        /\ rejection(request) = 0
        /\ LET spreadsheet_id == spreadsheet_id_of(request)
               job_id == truncate8(uuid)
               spreadsheet_url == SheetsUrlPrefix \o spreadsheet_id
           IN  /\ jobs_store' = put(jobs_store, job_id,
                                    new_job(job_id, request.channels,
                                            spreadsheet_url, now))
               /\ tasks' = Append(tasks,
                                  new_task(job_id, request.channels, spreadsheet_id))
    /\ now' = now + 1
    /\ UNCHANGED <<env, fetch, outcome, item, normalized, probe, answer>>

(***************************************************************************)
(* process_channels_background, one step per statement that writes the      *)
(* ledger or calls a collaborator: the task runs in a worker thread, and    *)
(* other tasks and the handlers run between its statements.                 *)
(***************************************************************************)
Unchanged_service ==
    UNCHANGED <<env, now, fetch, outcome, item, normalized, probe, answer>>

goto(k, pc) == tasks' = [tasks EXCEPT ![k].pc = pc]

\* line 106: the loop goes on with channels[i] while there is one (i counts
\* from 0), and the export follows the last iteration
loop_head(i, channels) == IF i < Len(channels) THEN "analyze" ELSE "export"

\* the end of iteration i
next_iteration(t) == [t EXCEPT !.i = @ + 1, !.pc = loop_head(t.i + 1, t.channels)]

\* line 100
SetProcessing(k) ==
    /\ tasks[k].pc = "queued"
    /\ jobs_store' = set_field(jobs_store, tasks[k].job_id, "status", "processing")
    /\ goto(k, "set_total")
    /\ Unchanged_service

\* lines 101-104
SetTotal(k) ==
    /\ tasks[k].pc = "set_total"
    /\ jobs_store' = set_field(jobs_store, tasks[k].job_id, "total_channels",
                               Len(tasks[k].channels))
    /\ goto(k, loop_head(0, tasks[k].channels))
    /\ Unchanged_service

\* error_result with a fixed text in place of str(e)
error_result_generic(channel_url, msg) ==
    [channel_name |-> "Error",
     channel_url |-> channel_url,
     error |-> "Error",
     videos |-> <<>>,
     top_5 |-> <<>>,
     promedio_score |-> 0]

\* lines 111-119: the result the except branch of the loop appends
error_result(channel_url, msg) ==
    [channel_name |-> "Error",
     channel_url |-> channel_url,
     error |-> msg,
     videos |-> <<>>,
     top_5 |-> <<>>,
     promedio_score |-> 0]

\* lines 107-119: what one iteration appends to resultados, the result of
\* analizar_canal or, when it raised, the result of the except branch
report_entry(channel_url, r) ==
    IF r.kind = "return" THEN r.value ELSE error_result(channel_url, r.msg)

\* one_iteration with an except branch that appends nothing
one_iteration_drops_failed(t) ==
    LET channel_url == t.channels[t.i + 1]
        r == analizar_canal_of[channel_url]
    IN  IF r.kind = "return"
        THEN [t EXCEPT !.resultados = Append(@, r.value), !.pc = "set_processed"]
        ELSE next_iteration(t)

\* lines 106-119: iteration i of the loop up to the append. When
\* analizar_canal raises, line 110 is skipped and the iteration ends.
one_iteration(t) ==
    LET channel_url == t.channels[t.i + 1]
        r == analizar_canal_of[channel_url]
        t2 == [t EXCEPT !.resultados = Append(@, report_entry(channel_url, r))]
    IN  IF r.kind = "return" THEN [t2 EXCEPT !.pc = "set_processed"]
        ELSE next_iteration(t2)

Analyze(k) ==
    /\ tasks[k].pc = "analyze"
    /\ tasks' = [tasks EXCEPT ![k] = one_iteration(tasks[k])]
    /\ UNCHANGED jobs_store
    /\ Unchanged_service

\* line 110: channels_processed = i + 1; the iteration ends
SetProcessed(k) ==
    /\ tasks[k].pc = "set_processed"
    /\ jobs_store' = set_field(jobs_store, tasks[k].job_id, "channels_processed",
                               tasks[k].i + 1)
    /\ tasks' = [tasks EXCEPT ![k] = next_iteration(tasks[k])]
    /\ Unchanged_service

\* lines 122-125, and the jump to the outer except when the export raises
Export(k) ==
    /\ tasks[k].pc = "export"
    /\ \E transport \in {"ok", "failed"} :
        LET t == tasks[k]
            r == exportar_multiples_canales_a_sheets(t.resultados, t.spreadsheet_id,
                                                     transport)
        IN  tasks' = [tasks EXCEPT ![k] =
                [t EXCEPT !.transport = transport,
                          !.export_calls = @ + 1,
                          !.spreadsheet_url =
                              IF r.kind = "return" THEN Some(r.value) ELSE None,
                          !.exc = IF r.kind = "raise" THEN Some(r.msg) ELSE None,
                          !.pc = IF r.kind = "return" THEN "set_completed"
                                 ELSE "set_error"]]
    /\ UNCHANGED jobs_store
    /\ Unchanged_service

\* line 127
SetCompleted(k) ==
    /\ tasks[k].pc = "set_completed"
    /\ jobs_store' = set_field(jobs_store, tasks[k].job_id, "status", "completed")
    /\ goto(k, "set_completed_at")
    /\ Unchanged_service

\* line 128
SetCompletedAt(k) ==
    /\ tasks[k].pc = "set_completed_at"
    /\ jobs_store' = set_field(jobs_store, tasks[k].job_id, "completed_at", Some(now))
    /\ goto(k, "set_url")
    /\ Unchanged_service

\* line 129
SetUrl(k) ==
    /\ tasks[k].pc = "set_url"
    /\ jobs_store' = set_field(jobs_store, tasks[k].job_id, "spreadsheet_url",
                               tasks[k].spreadsheet_url[1])
    /\ goto(k, "done")
    /\ Unchanged_service

\* line 132
SetError(k) ==
    /\ tasks[k].pc = "set_error"
    /\ jobs_store' = set_field(jobs_store, tasks[k].job_id, "status", "error")
    /\ goto(k, "set_error_msg")
    /\ Unchanged_service

\* line 133
SetErrorMsg(k) ==
    /\ tasks[k].pc = "set_error_msg"
    /\ jobs_store' = set_field(jobs_store, tasks[k].job_id, "error", tasks[k].exc)
    /\ goto(k, "set_error_at")
    /\ Unchanged_service

\* line 134
SetErrorAt(k) ==
    /\ tasks[k].pc = "set_error_at"
    /\ jobs_store' = set_field(jobs_store, tasks[k].job_id, "completed_at", Some(now))
    /\ goto(k, "done")
    /\ Unchanged_service

(***************************************************************************)
(* Spec: one job from its submission to its end, for every request of up to *)
(* MaxChannels channels and every configuration of the service.             *)
(***************************************************************************)
MaxChannels == 2

RECURSIVE SeqsUpTo(_, _)
SeqsUpTo(S, n) ==
    IF n = 0 THEN {<<>>}
    ELSE LET shorter == SeqsUpTo(S, n - 1)
         IN  shorter \cup {Append(q, x) : q \in shorter, x \in S}

Requests ==
    {[channels |-> c, spreadsheet_id |-> sid] :
        c \in SeqsUpTo(ChannelUrls, MaxChannels), sid \in {None, Some("sheet-of-request")}}

UUIDs == {[head |-> h, tail |-> t] : h \in {"3f2a9c1e", "b7d04e55"},
                                      t \in {"-4c1d-0001", "-4c1d-0002"}}

Idle_channel ==
    /\ fetch = [info |-> Items(<<>>), videos |-> Items(<<>>)]
    /\ outcome = [kind |-> "pending"]

Idle_item ==
    /\ item = RawItem("none", [kind |-> "missing"], Missing, Missing, Missing)
    /\ normalized = [kind |-> "pending"]

Idle_probe ==
    /\ probe = [video |-> [views |-> 0, dias_publicado |-> 0,
                           engagement_rate |-> [num |-> 0, den |-> 1]],
                promedio_score |-> 0]
    /\ answer = [kind |-> "pending"]

Init ==
    /\ env \in [APIFY_API_TOKEN : {"", "apify-token"},
                GOOGLE_SHEETS_ID : {"", "sheet-of-env"}]
    /\ jobs_store = <<>>
    /\ tasks = <<>>
    /\ now = 0
    /\ Idle_channel
    /\ Idle_item
    /\ Idle_probe

Next ==
    \/ SubmitRejected(Requests)
    \/ Submit(Requests, UUIDs, 1)
    \/ \E k \in 1..Len(tasks) : SetProcessing(k)
    \/ \E k \in 1..Len(tasks) : SetTotal(k)
    \/ \E k \in 1..Len(tasks) : Analyze(k)
    \/ \E k \in 1..Len(tasks) : SetProcessed(k)
    \/ \E k \in 1..Len(tasks) : Export(k)
    \/ \E k \in 1..Len(tasks) : SetCompleted(k)
    \/ \E k \in 1..Len(tasks) : SetCompletedAt(k)
    \/ \E k \in 1..Len(tasks) : SetUrl(k)
    \/ \E k \in 1..Len(tasks) : SetError(k)
    \/ \E k \in 1..Len(tasks) : SetErrorMsg(k)
    \/ \E k \in 1..Len(tasks) : SetErrorAt(k)

Spec == Init /\ [][Next]_vars

(***************************************************************************)
(* LedgerSpec: up to MaxJobs jobs submitted at any time and run by          *)
(* concurrent worker threads, on a configured service. The requests are     *)
(* one channel that succeeds and one whose analysis raises.                 *)
(***************************************************************************)
MaxJobs == 2

LedgerRequests ==
    {[channels |-> <<u>>, spreadsheet_id |-> None] : u \in {OkUrl, SilentUrl}}

LedgerInit ==
    /\ env = [APIFY_API_TOKEN |-> "apify-token", GOOGLE_SHEETS_ID |-> "sheet-of-env"]
    /\ jobs_store = <<>>
    /\ tasks = <<>>
    /\ now = 0
    /\ Idle_channel
    /\ Idle_item
    /\ Idle_probe

LedgerNext ==
    \/ Submit(LedgerRequests, UUIDs, MaxJobs)
    \/ \E k \in 1..Len(tasks) : SetProcessing(k)
    \/ \E k \in 1..Len(tasks) : SetTotal(k)
    \/ \E k \in 1..Len(tasks) : Analyze(k)
    \/ \E k \in 1..Len(tasks) : SetProcessed(k)
    \/ \E k \in 1..Len(tasks) : Export(k)
    \/ \E k \in 1..Len(tasks) : SetCompleted(k)
    \/ \E k \in 1..Len(tasks) : SetCompletedAt(k)
    \/ \E k \in 1..Len(tasks) : SetUrl(k)
    \/ \E k \in 1..Len(tasks) : SetError(k)
    \/ \E k \in 1..Len(tasks) : SetErrorMsg(k)
    \/ \E k \in 1..Len(tasks) : SetErrorAt(k)

LedgerSpec == LedgerInit /\ [][LedgerNext]_vars

\* Every task's steps are taken as long as one is possible: the worker
\* thread of a background task is scheduled until the function returns.
Run(k) ==
    /\ k \in DOMAIN tasks
    /\ \/ SetProcessing(k) \/ SetTotal(k) \/ Analyze(k) \/ SetProcessed(k)
       \/ Export(k)
       \/ SetCompleted(k) \/ SetCompletedAt(k) \/ SetUrl(k)
       \/ SetError(k) \/ SetErrorMsg(k) \/ SetErrorAt(k)

FairLedgerSpec == LedgerSpec /\ \A k \in 1..MaxJobs : WF_vars(Run(k))

(***************************************************************************)
(* ChannelSpec: one call of analizar_canal, and the entry the loop of       *)
(* process_channels_background makes of it, for every answer of the fetch   *)
(* collaborator: the info call raises (with a message or with none), finds  *)
(* no item, or gives an item with or without channelName/channelUrl; the    *)
(* video call raises or gives up to MaxVideos items.                        *)
(***************************************************************************)
MaxVideos == 6

RequestedUrl == "https://www.youtube.com/@channel"

UtcZ(h) == [kind |-> "utc_z", hours |-> h]

\* The items of the video call: two videos of the same score (360.45) with
\* different counts, one of a lower score (237.50), one dated in the future
\* with no counts but the views (4803.60), and one whose viewCount is a string.
VideoProfiles ==
    {[date |-> Aware(48), viewCount |-> PyInt(1500), likes |-> PyInt(30),
      commentsCount |-> Null],
     [date |-> Aware(50), viewCount |-> PyInt(1500), likes |-> PyInt(0),
      commentsCount |-> PyInt(30)],
     [date |-> UtcZ(720), viewCount |-> PyInt(15000), likes |-> PyInt(150),
      commentsCount |-> PyInt(15)],
     [date |-> Aware(-30), viewCount |-> PyInt(12000), likes |-> Missing,
      commentsCount |-> Missing],
     [date |-> Aware(48), viewCount |-> PyStr, likes |-> PyInt(30),
      commentsCount |-> PyInt(3)]}

\* the items of a run, identified by their position
numbered(profiles) ==
    [i \in 1..Len(profiles) |->
        RawItem("v" \o ToString(i), profiles[i].date, profiles[i].viewCount,
                profiles[i].likes, profiles[i].commentsCount)]

InfoFailures ==
    {Raise(""), Raise("ApifyApiError: actor run failed"), Items(<<>>)}

InfoAnswers ==
    {Items(<<InfoItem("Channel", RequestedUrl)>>), Items(<<[id |-> "info"]>>)}

VideoAnswers ==
    {Raise("ApifyApiError: actor run failed")}
        \cup {Items(numbered(p)) : p \in SeqsUpTo(VideoProfiles, MaxVideos)}

ChannelFetches ==
    {[info |-> i, videos |-> Items(<<>>)] : i \in InfoFailures}
        \cup {[info |-> i, videos |-> v] : i \in InfoAnswers, v \in VideoAnswers}

\* the collaborator of one channel: the run with maxResults = 1 is the info
\* call, the run with maxResults = MaxVideosPerChannel the video call
ChannelClient(f) ==
    [call \in {RequestedUrl, Canonical(RequestedUrl)} \X {1, MaxVideosPerChannel} |->
        IF call[2] = 1 THEN f.info ELSE f.videos]

ChannelInit ==
    /\ env = [APIFY_API_TOKEN |-> "apify-token", GOOGLE_SHEETS_ID |-> "sheet-of-env"]
    /\ jobs_store = <<>>
    /\ tasks = <<>>
    /\ now = 0
    /\ fetch \in ChannelFetches
    /\ outcome = [kind |-> "pending"]
    /\ Idle_item
    /\ Idle_probe

\* lines 107-119 of api.py for one channel: the call and the entry appended
AnalyzeChannel ==
    /\ outcome.kind = "pending"
    /\ outcome' =
            LET r == analizar_canal(ChannelClient(fetch), RequestedUrl)
            IN  [kind |-> "done", call |-> r, entry |-> report_entry(RequestedUrl, r)]
    /\ UNCHANGED <<env, jobs_store, tasks, now, fetch, item, normalized, probe, answer>>

ChannelNext == AnalyzeChannel

ChannelSpec == ChannelInit /\ [][ChannelNext]_vars

(***************************************************************************)
(* NormalizeSpec: the loop body of obtener_videos_canal on one raw record,  *)
(* for every kind of 'date' the code tells apart (publish times in the past *)
(* and in the future included) and every kind of count.                     *)
(***************************************************************************)
Dates ==
    {[kind |-> k] : k \in {"missing", "null", "empty", "garbage", "naive"}}
        \cup {Aware(h) : h \in {-30, -1, 0, 23, 24, 720}}
        \cup {UtcZ(h) : h \in {-30, -1, 0, 23, 24, 720}}

Counts(k) == {Missing, Null, PyInt(0), PyInt(k), PyStr}

RawItems ==
    {RawItem("v1", d, v, l, c) :
        d \in Dates, v \in Counts(1500), l \in Counts(30), c \in Counts(3)}

NormalizeInit ==
    /\ env = [APIFY_API_TOKEN |-> "apify-token", GOOGLE_SHEETS_ID |-> "sheet-of-env"]
    /\ jobs_store = <<>>
    /\ tasks = <<>>
    /\ now = 0
    /\ Idle_channel
    /\ item \in RawItems
    /\ normalized = [kind |-> "pending"]
    /\ Idle_probe

Normalize ==
    /\ normalized.kind = "pending"
    /\ normalized' = normalize(item)
    /\ UNCHANGED <<env, jobs_store, tasks, now, fetch, outcome, item, probe, answer>>

NormalizeNext == Normalize

NormalizeSpec == NormalizeInit /\ [][NormalizeNext]_vars

(***************************************************************************)
(* StandoutSpec: one call of analizar_porque_destaca, for videos and means  *)
(* on both sides of every threshold of the function.                        *)
(***************************************************************************)
Percent(hundredths) == [num |-> hundredths, den |-> 100]

StandoutProbes ==
    {[video |-> [views |-> v, dias_publicado |-> d, engagement_rate |-> Percent(e),
                 score |-> sc],
      promedio_score |-> p] :
        v \in {1000, 1001, 10000, 10001, 15000},
        d \in {-1, 0, 2, 6, 7, 30},
        e \in {0, 300, 301, 500, 501, 600},
        sc \in {0, 200, 201, 500},
        p \in {0, 100, 250}}

StandoutInit ==
    /\ env = [APIFY_API_TOKEN |-> "apify-token", GOOGLE_SHEETS_ID |-> "sheet-of-env"]
    /\ jobs_store = <<>>
    /\ tasks = <<>>
    /\ now = 0
    /\ Idle_channel
    /\ Idle_item
    /\ probe \in StandoutProbes
    /\ answer = [kind |-> "pending"]

\* line 169 of youtube_service.py: razon_destaca of one video of top_5
Explain ==
    /\ answer.kind = "pending"
    /\ answer' = [kind |-> "explained",
                  razon_destaca |->
                      analizar_porque_destaca(probe.video, probe.promedio_score)]
    /\ UNCHANGED <<env, jobs_store, tasks, now, fetch, outcome, item, normalized, probe>>

StandoutNext == Explain

StandoutSpec == StandoutInit /\ [][StandoutNext]_vars

(***************************************************************************)
(* ScoreSpec: one call of calcular_score, for views from 0 on, ages from 0  *)
(* on and engagement rates with and without a finite decimal expansion.     *)
(***************************************************************************)
ScoreViews == {0, 1, 2, 3, 7, 10, 999, 1000, 1001, 1500, 10000, 15000}
ScoreAges == {0, 1, 2, 3, 7, 30}
ScoreRates ==
    {[num |-> 0, den |-> 1], [num |-> 200, den |-> 3], [num |-> 100, den |-> 7],
     [num |-> 3000, den |-> 1500], [num |-> 16500, den |-> 15000]}

ScoreProbes ==
    {[video |-> [views |-> v, dias_publicado |-> d, engagement_rate |-> e],
      promedio_score |-> 0] :
        v \in ScoreViews, d \in ScoreAges, e \in ScoreRates}

ScoreInit ==
    /\ env = [APIFY_API_TOKEN |-> "apify-token", GOOGLE_SHEETS_ID |-> "sheet-of-env"]
    /\ jobs_store = <<>>
    /\ tasks = <<>>
    /\ now = 0
    /\ Idle_channel
    /\ Idle_item
    /\ probe \in ScoreProbes
    /\ answer = [kind |-> "pending"]

\* line 87 of youtube_service.py: video['score'] = calcular_score(video)
Score ==
    /\ answer.kind = "pending"
    /\ answer' = [kind |-> "scored", score |-> calcular_score(probe.video)]
    /\ UNCHANGED <<env, jobs_store, tasks, now, fetch, outcome, item, normalized, probe>>

ScoreNext == Score

ScoreSpec == ScoreInit /\ [][ScoreNext]_vars

(***************************************************************************)
(* Properties of the jobs                                                   *)
(***************************************************************************)
Tasks == DOMAIN tasks
Entry(k) == jobs_store[tasks[k].job_id]
LoopDone(t) == t.pc \notin {"queued", "set_total", "analyze", "set_processed"}
Terminal(status) == status \in {"completed", "error"}

\* C1: the results of the loop hold one entry per requested channel, in the
\* order of the request and under the URL requested, whether the analysis of
\* the channel returned videos, returned "no videos" or raised; after the loop
\* len(resultados) = len(channels).
C1_OneResultPerChannel ==
    \A k \in Tasks :
        LET t == tasks[k]
        IN  /\ Len(t.resultados) <= Len(t.channels)
            /\ t.pc = "analyze" => Len(t.resultados) = t.i
            /\ \A i \in 1..Len(t.resultados) :
                    t.resultados[i].channel_url = t.channels[i]
            /\ LoopDone(t) => Len(t.resultados) = Len(t.channels)

C1_Witness ==
    \E k \in Tasks :
        LET t == tasks[k]
        IN  /\ t.pc = "export"
            /\ Len(t.channels) = 2
            /\ "error" \in DOMAIN t.resultados[1]
            /\ "error" \notin DOMAIN t.resultados[2]

\* C2: a channel whose analysis raises never fails the job: when the task has
\* ended and the transport of the export did not fail, the job's status is
\* "completed", whatever the message of the exception (the empty one
\* included); the status is "error" only after the transport failed.
C2_ChannelFailureNeverFailsJob ==
    \A k \in Tasks :
        /\ (tasks[k].pc = "done" /\ tasks[k].transport = "ok")
                => Entry(k).status = "completed"
        /\ (LoopDone(tasks[k]) /\ Entry(k).status = "error")
                => tasks[k].transport = "failed"

\* C3: when the export raises, the job is reported as failed: once the task
\* has ended its entry has status "error", error = the message of the
\* exception and completed_at set, and from the first write of the handler on
\* it does not show "completed".
C3_ExportFailureReported ==
    \A k \in Tasks :
        LET t == tasks[k]
        IN  /\ (t.exc # None /\ t.pc \in {"set_error_msg", "set_error_at", "done"})
                    => Entry(k).status = "error"
            /\ (t.exc # None /\ t.pc = "done")
                    => /\ Entry(k).error = t.exc
                       /\ Entry(k).completed_at # None

\* C4: every job of the ledger ends in "completed" or "error", and a job in
\* one of the two keeps its status for ever.
C4_EveryJobEnds ==
    \A id \in {truncate8(u) : u \in UUIDs} :
        (id \in DOMAIN jobs_store) ~> (id \in DOMAIN jobs_store
                                        /\ Terminal(jobs_store[id].status))

C4_TerminalStatusIsFinal ==
    [][\A id \in DOMAIN jobs_store :
            Terminal(jobs_store[id].status)
                => jobs_store'[id].status = jobs_store[id].status]_vars

C4_RunsToCompletionOrFailure == C4_EveryJobEnds /\ C4_TerminalStatusIsFinal

\* C5: when POST /analyze returns, the entry of the returned job_id is there
\* with status "pending", channels_processed = 0 and total_channels = the
\* number of channels requested, and its task has not started; from then on
\* GET /job/{job_id} answers 200 for the job_id of every task.
C5_AcceptedStep ==
    Len(tasks') = Len(tasks) + 1 =>
        LET t == tasks'[Len(tasks')]
            e == jobs_store'[t.job_id]
        IN  /\ t.pc = "queued"
            /\ e.job_id = t.job_id
            /\ e.status = "pending"
            /\ e.channels_processed = 0
            /\ e.total_channels = Len(t.channels)
            /\ e.channels = t.channels

Analyzed == outcome.kind = "done"
InfoResolves == fetch.info.kind = "items" /\ fetch.info.items # <<>>

\* the message of the exception the fetch raises for the channel, if it does:
\* the info call raises or finds no item, or the video call raises
fetch_failure ==
    IF fetch.info.kind = "raise" THEN Some(fetch.info.msg)
    ELSE IF fetch.info.items = <<>> THEN Some(InfoErrorPrefix \o RequestedUrl)
    ELSE IF fetch.videos.kind = "raise" THEN Some(fetch.videos.msg)
    ELSE None

\* C6 as stated: whenever the info call or the video call raises, the
\* "no item" case of the info call included, analizar_canal returns a result
\* whose error is the message of the exception; it never raises to its caller.
C6_NeverEscapes ==
    (Analyzed /\ fetch_failure # None) =>
        /\ outcome.call.kind = "return"
        /\ "error" \in DOMAIN outcome.call.value
        /\ outcome.call.value.error = fetch_failure[1]

\* C6 amended: whenever the info call or the video call raises, analizar_canal
\* raises that exception to its caller, and the loop of
\* process_channels_background makes of it the entry of the report: channel
\* name 'Error', the URL requested, error = the message, no videos, no top,
\* mean 0.
C6_EscapesToTheLoop ==
    (Analyzed /\ fetch_failure # None) =>
        /\ outcome.call = Raise(fetch_failure[1])
        /\ outcome.entry = [channel_name |-> "Error",
                            channel_url |-> RequestedUrl,
                            error |-> fetch_failure[1],
                            videos |-> <<>>,
                            top_5 |-> <<>>,
                            promedio_score |-> 0]

C6_Witness ==
    /\ Analyzed
    /\ InfoResolves
    /\ fetch.videos.kind = "raise"
    /\ outcome.call.kind = "raise"
    /\ outcome.entry.error = fetch.videos.msg

\* C7: when the info call resolves the channel and the video call gives no
\* item, analizar_canal returns, without raising, a result with the "no videos"
\* error, videos = [], top_5 = [] and promedio_score = 0.
C7_NoVideosResult ==
    (Analyzed /\ InfoResolves /\ fetch.videos = Items(<<>>)) =>
        /\ outcome.call.kind = "return"
        /\ "error" \in DOMAIN outcome.call.value
        /\ outcome.call.value.error = "No se encontraron videos"
        /\ outcome.call.value.videos = <<>>
        /\ outcome.call.value.top_5 = <<>>
        /\ outcome.call.value.promedio_score = 0
        /\ outcome.call.value.channel_url = RequestedUrl
        /\ outcome.entry = outcome.call.value

C7_Witness ==
    /\ Analyzed
    /\ InfoResolves
    /\ "channelName" \in DOMAIN fetch.info.items[1]
    /\ fetch.videos = Items(<<>>)
    /\ outcome.entry.error = "No se encontraron videos"

\* a video of the result without the two fields the loop over top_5 adds
Core(v) == [f \in DOMAIN v \ {"razon_destaca", "vs_promedio"} |-> v[f]]

WellFormed(raw) == normalize(raw).kind = "return"

FetchedVideos ==
    /\ InfoResolves
    /\ fetch.videos.kind = "items"
    /\ fetch.videos.items # <<>>
    /\ \A i \in 1..Len(fetch.videos.items) : WellFormed(fetch.videos.items[i])

\* C8: for every non-empty list of fetched videos, 'videos' of the result is a
\* permutation of the fetched videos in descending order of score, videos of
\* equal score in the order of the fetch, and top_5 is the first
\* min(5, number of videos) elements of 'videos'.
C8_SortedStableTop5 ==
    (Analyzed /\ FetchedVideos) =>
        /\ outcome.call.kind = "return"
        /\ LET raw == fetch.videos.items
               n == Len(raw)
               videos == outcome.call.value.videos
               pos(i) == CHOOSE j \in 1..n : raw[j].id = videos[i].video_id
           IN  /\ Len(videos) = n
               /\ \A i \in 1..n :
                    /\ \E j \in 1..n : raw[j].id = videos[i].video_id
                    /\ Core(videos[i]) = normalize(raw[pos(i)]).value
               /\ \A i, j \in 1..n :
                    i < j => /\ pos(i) # pos(j)
                             /\ videos[i].score >= videos[j].score
                             /\ videos[i].score = videos[j].score => pos(i) < pos(j)
               /\ outcome.call.value.top_5 = SubSeq(videos, 1, Min(5, n))

C8_Witness ==
    /\ Analyzed
    /\ FetchedVideos
    /\ LET videos == outcome.call.value.videos
       IN  /\ Len(videos) > 5
           /\ Len(outcome.call.value.top_5) = 5
           /\ videos[1].score = videos[2].score
           /\ videos[1].likes # videos[2].likes
           /\ videos[1].video_id = "v2"

\* the condition of C9 on one entry of the report; the mean is the rounded
\* mean when it is within half a hundredth of sum / n
Consistent(e) ==
    \/ /\ "error" \in DOMAIN e
       /\ e.videos = <<>>
       /\ e.top_5 = <<>>
       /\ e.promedio_score = 0
    \/ /\ "error" \notin DOMAIN e
       /\ e.videos # <<>>
       /\ LET n == Len(e.videos)
              sum == SumSeq([i \in 1..n |-> e.videos[i].score])
              d == n * e.promedio_score - sum
          IN  2 * d <= n /\ -2 * d <= n

\* C9: every entry of the report, built by analizar_canal or by the except
\* branch of the loop, either has error set (the key holds a message, which
\* may be empty), no videos, no top and mean 0, or has no error, videos and
\* the mean equal to the rounded arithmetic mean of the scores of its videos.
C9_EntryIsErrorOrAnalysis == Analyzed => Consistent(outcome.entry)

C9_Witness ==
    /\ Analyzed
    /\ outcome.call.kind = "return"
    /\ "error" \notin DOMAIN outcome.entry
    /\ Len(outcome.entry.videos) = 3
    /\ outcome.entry.promedio_score * 3
            > SumSeq([i \in 1..3 |-> outcome.entry.videos[i].score])

(***************************************************************************)
(* Properties of the normalization of one record                            *)
(***************************************************************************)

\* C10: every normalized video has views, likes, comments and dias_publicado
\* >= 0 and engagement_rate >= 0, whatever the raw record: a publish time
\* later than now and missing or null counts included.
C10_NothingNegative ==
    normalized.kind = "return" =>
        /\ normalized.value.views >= 0
        /\ normalized.value.likes >= 0
        /\ normalized.value.comments >= 0
        /\ normalized.value.dias_publicado >= 0
        /\ normalized.value.engagement_rate.num >= 0
        /\ normalized.value.engagement_rate.den > 0

\* the count a raw field gives when it is defaulted: 0 unless it holds an int
defaulted(x) == IF x.t = "int" THEN x.n ELSE 0

\* C11: normalizing a raw record never raises: whether a field is valid,
\* missing, null or malformed (a count that is no number, a timestamp that
\* does not parse or has no offset), a video is returned, with 0 for every
\* count that is missing, null or malformed and dias_publicado = 0 when the
\* timestamp fails.
C11_NeverRaises ==
    normalized.kind # "pending" =>
        /\ normalized.kind = "return"
        /\ normalized.value.views = defaulted(item.viewCount)
        /\ normalized.value.likes = defaulted(item.likes)
        /\ normalized.value.comments = defaulted(item.commentsCount)
        /\ item.date.kind \notin {"aware", "utc_z"}
                => normalized.value.dias_publicado = 0

(***************************************************************************)
(* Properties of the standout explanation and of the score                  *)
(***************************************************************************)
ReasonOrder ==
    <<"Alto alcance", "Engagement excepcional", "Buen engagement",
      "Viral reciente", "Outlier significativo">>

\* whether the condition of a reason holds for the video and the mean probed
Applies(reason) ==
    LET v == probe.video
        p == probe.promedio_score
        exceptional == v.engagement_rate.num > 5 * v.engagement_rate.den
    IN  CASE reason = "Alto alcance" -> v.views > 10000
          [] reason = "Engagement excepcional" -> exceptional
          [] reason = "Buen engagement" ->
                ~exceptional /\ v.engagement_rate.num > 3 * v.engagement_rate.den
          [] reason = "Viral reciente" -> v.dias_publicado < 7 /\ v.views > 1000
          [] reason = "Outlier significativo" -> p > 0 /\ v.score > 2 * p

RECURSIVE CommaJoined(_)
CommaJoined(texts) ==
    IF texts = <<>> THEN ""
    ELSE IF Len(texts) = 1 THEN texts[1]
    ELSE CommaJoined(SubSeq(texts, 1, Len(texts) - 1)) \o ", " \o texts[Len(texts)]

\* C12: the explanation of a video and a mean is the list, joined by ", " in
\* the fixed order, of exactly the reasons whose condition holds (high reach
\* iff views > 10000; exceptional engagement iff engagement_rate > 5, else
\* good engagement iff engagement_rate > 3; recent viral iff dias_publicado < 7
\* and views > 1000; significant outlier iff mean > 0 and score > 2 * mean),
\* and it is the fallback text if and only if no condition holds.
C12_ExactlyTheReasonsThatHold ==
    answer.kind = "explained" =>
        LET holding == SelectSeq(ReasonOrder, Applies)
        IN  /\ holding # <<>> => answer.razon_destaca = CommaJoined(holding)
            /\ holding = <<>> <=> answer.razon_destaca = "Rendimiento consistente"

C12_Witness ==
    /\ answer.kind = "explained"
    /\ probe.video.views = 15000
    /\ probe.video.engagement_rate = Percent(600)
    /\ probe.video.dias_publicado = 2
    /\ probe.video.score > 2 * probe.promedio_score
    /\ answer.razon_destaca =
        "Alto alcance, Engagement excepcional, Viral reciente, Outlier significativo"

\* C13: with engagement_rate and dias_publicado fixed, the score does not
\* decrease when the views grow (views >= 0, dias_publicado >= 1, and 0 as
\* well since it counts as 1), and a video of dias_publicado = 0 has the score
\* of the same video with dias_publicado = 1.
C13_MonotoneInViewsAndClamped ==
    answer.kind = "scored" =>
        /\ \A more \in ScoreViews :
                more >= probe.video.views
                    => calcular_score([probe.video EXCEPT !.views = more]) >= answer.score
        /\ probe.video.dias_publicado = 0
                => answer.score = calcular_score([probe.video EXCEPT !.dias_publicado = 1])

C13_Witness ==
    /\ answer.kind = "scored"
    /\ probe.video.dias_publicado = 0
    /\ probe.video.views = 1500
    /\ answer.score > 0
    /\ calcular_score([probe.video EXCEPT !.views = 10000]) > answer.score

(***************************************************************************)
(* Properties of the ledger                                                 *)
(***************************************************************************)

\* C14: the progress counter of a job never exceeds total_channels, and when
\* the job has status 'completed' channels_processed = total_channels,
\* whichever of its channels succeeded and failed.
C14_ProgressCounter ==
    \A k \in Tasks :
        /\ Entry(k).channels_processed <= Entry(k).total_channels
        /\ Entry(k).status = "completed"
                => Entry(k).channels_processed = Entry(k).total_channels

\* C14, the part about steps: channels_processed of a job never decreases.
C14_NeverDecreases ==
    [][\A id \in DOMAIN jobs_store :
            jobs_store'[id].channels_processed >= jobs_store[id].channels_processed]_vars

\* C15: under every interleaving of submissions and running jobs no step
\* deletes or replaces an entry of the ledger: a job_id that maps to a job
\* keeps mapping to that job, with the same channels and started_at, and a
\* task writes the entry of its own job_id only.
C15_EntriesAreNeverReplaced ==
    [][/\ \A id \in DOMAIN jobs_store :
            /\ id \in DOMAIN jobs_store'
            /\ jobs_store'[id].job_id = jobs_store[id].job_id
            /\ jobs_store'[id].channels = jobs_store[id].channels
            /\ jobs_store'[id].started_at = jobs_store[id].started_at
       /\ \A k \in Tasks :
            tasks'[k].pc # tasks[k].pc
                => \A id \in DOMAIN jobs_store \ {tasks[k].job_id} :
                        jobs_store'[id] = jobs_store[id]]_vars

\* C16: in every state of the ledger the status of each job is one of
\* pending, processing, completed, error; completed_at is set exactly when the
\* status is completed or error; error is set exactly when the status is
\* error; and the export is called at most once per job, after every channel
\* requested has been handled.
C16_FieldsMatchStatus ==
    /\ \A id \in DOMAIN jobs_store :
        LET e == jobs_store[id]
        IN  /\ e.status \in {"pending", "processing", "completed", "error"}
            /\ e.completed_at # None <=> Terminal(e.status)
            /\ e.error # None <=> e.status = "error"
    /\ \A k \in Tasks :
        /\ tasks[k].export_calls <= 1
        /\ tasks[k].export_calls = 1
                => Len(tasks[k].resultados) = Len(tasks[k].channels)

\* C16, the part about steps: the status of a job only moves along
\* pending -> processing -> (completed | error).
C16_StatusOrder ==
    [][\A id \in DOMAIN jobs_store :
            \/ jobs_store'[id].status = jobs_store[id].status
            \/ /\ jobs_store[id].status = "pending"
               /\ jobs_store'[id].status = "processing"
            \/ /\ jobs_store[id].status = "processing"
               /\ jobs_store'[id].status \in {"completed", "error"}]_vars

====
